---- MODULE Spec2Model ----
(***************************************************************************)
(* IParallelSolver (QhX/iparallelization_solver.py): an orchestrator that  *)
(* seeds a multiprocessing.Queue with set IDs, spawns num_workers worker   *)
(* processes running process_wrapper, joins them and calls                 *)
(* maybe_save_results.                                                     *)
(*                                                                         *)
(* The two queues are multiprocessing.Queue objects.  put() appends to a   *)
(* buffer of the putting process; a feeder thread of that process moves    *)
(* the buffer into the pipe.  empty() and get() look at the pipe only;     *)
(* get() without arguments blocks while the pipe is empty.                 *)
(*                                                                         *)
(* The overridable hooks (maybe_begin_logging, get_process_function_result,*)
(* aggregate_process_function_result, maybe_stop_logging,                  *)
(* maybe_save_local_results, maybe_save_results) are opaque: each call     *)
(* either returns or raises, chosen by the environment.                    *)
(***************************************************************************)
EXTENDS Integers, Sequences, FiniteSets, TLC

\* ---- bounds of the model ------------------------------------------------
MaxWorkers == 2       \* num_workers ranges over 1..MaxWorkers
MaxIds == 2           \* set_ids has at most MaxIds entries

Workers == 1..MaxWorkers
IdSet == 1..MaxIds

RECURSIVE SeqsUpTo(_, _)
SeqsUpTo(S, n) ==
    IF n = 0 THEN {<<>>}
    ELSE LET shorter == SeqsUpTo(S, n - 1)
         IN  shorter \cup {Append(s, x) : s \in {t \in shorter : Len(t) = n - 1}, x \in S}

\* The set_ids arguments a caller may pass.  Set IDs are opaque tokens, so a
\* list stands for all its renamings: the IDs of a list are numbered in the
\* order of their first occurrence.
FirstOccurrenceOrder(s) ==
    \A i \in 1..Len(s) : \/ s[i] = 1
                          \/ \E j \in 1..(i - 1) : s[j] >= s[i] - 1
SetIdLists == {s \in SeqsUpTo(IdSet, MaxIds) : FirstOccurrenceOrder(s)}

\* the results_file arguments a caller may pass
None == "None"
EmptyPath == ""
ResultsFiles == {None, EmptyPath, "results.csv"}

\* ---- values -------------------------------------------------------------
\* Strings are sequences of characters; the empty string is <<>>.
EmptyString == <<>>

\* get_process_function_result(set_id): the result computed for set_id
ProcessResult(id) == [of |-> id]

\* aggregate_process_function_result(result): the row rendered from a result
ResultRow(res) == <<res.of>>

\* header line of the unified artifact
Header == "header"

Steps == {"begin", "compute", "aggregate", "put", "stop", "save_local"}
NoIteration == [s \in Steps |-> "none"]
NoId == 0

VARIABLES
    num_workers,         \* self.num_workers
    save_all_results_,   \* self.save_all_results_
    set_ids_buf,         \* self.set_ids_: put but not yet fed into the pipe
    set_ids_pipe,        \* self.set_ids_: in the pipe, seen by empty() and get()
    results_,            \* self.results_
    opc,                 \* position of the caller's thread in process_ids
    set_ids,             \* argument of the current process_ids call
    results_file,        \* argument of the current process_ids call
    next_put,            \* index of the for loop of line 101
    started,             \* processes started so far (line 107)
    joined,              \* processes joined so far (line 110)
    pc,                  \* position of each worker process in process_wrapper
    set_id,              \* local set_id of each worker
    res_string,          \* local res_string of each worker
    can_raise,           \* environment: whether hooks and queue reads may raise
    it,                  \* history, per worker: outcome of each step of the iteration
                         \* it has last run, until its next emptiness check
    run,                 \* history: process_ids calls begun
    outcome,             \* history: how the last finished call ended
    artifact,            \* history: file written by the current call (<<>>: none)
    dequeued,            \* history: per ID, get() calls of this run that returned it
    compute_raised,      \* history: compute calls of this run that raised
    ok_tasks,            \* history: tasks of this run whose compute and aggregate returned
    prev                 \* history: file argument and artifact of the previous call

vars == <<num_workers, save_all_results_, set_ids_buf, set_ids_pipe, results_, opc,
          set_ids, results_file, next_put, started, joined, pc, set_id,
          res_string, can_raise, it, run, outcome, artifact, dequeued, compute_raised,
          ok_tasks, prev>>

confVars == <<num_workers, save_all_results_, can_raise>>
orchVars == <<opc, set_ids, results_file, next_put, started, joined>>
localVars == <<set_id, res_string>>
histVars == <<run, outcome, artifact, dequeued, compute_raised, ok_tasks, prev>>

NoRun == [file |-> None, artifact |-> <<>>]

\* ---- __init__ -----------------------------------------------------------
Constructed(raising) ==
    /\ num_workers \in 1..MaxWorkers
    /\ save_all_results_ = FALSE
    /\ set_ids_buf = <<>>
    /\ set_ids_pipe = <<>>
    /\ results_ = <<>>
    /\ opc = "idle"
    /\ set_ids = <<>>
    /\ results_file = None
    /\ next_put = 1
    /\ started = 0
    /\ joined = 0
    /\ pc = [w \in Workers |-> "none"]
    /\ set_id = [w \in Workers |-> NoId]
    /\ res_string = [w \in Workers |-> EmptyString]
    /\ can_raise = raising
    /\ it = [w \in Workers |-> NoIteration]
    /\ run = 0
    /\ outcome = "none"
    /\ artifact = <<>>
    /\ dequeued = [i \in IdSet |-> 0]
    /\ compute_raised = 0
    /\ ok_tasks = 0
    /\ prev = NoRun

Init == Constructed(TRUE)

\* ---- multiprocessing.Queue ----------------------------------------------
\* Queue.empty(): whether the pipe holds nothing
QueueEmpty(pipe) == pipe = <<>>

\* the feeder thread of the caller's process moves one put item into the pipe
Feeder ==
    /\ set_ids_buf # <<>>
    /\ set_ids_pipe' = Append(set_ids_pipe, Head(set_ids_buf))
    /\ set_ids_buf' = Tail(set_ids_buf)
    /\ UNCHANGED <<confVars, results_, orchVars, pc, localVars, it, histVars>>

\* ---- process_ids --------------------------------------------------------
\* lines 97-98: a call with the given arguments, and
\* save_all_results_ = results_file is not None
Enter(ids, file) ==
    /\ opc = "idle"
    /\ set_ids' = ids
    /\ results_file' = file
    /\ save_all_results_' = (file # None)
    /\ opc' = IF Len(ids) = 0 THEN "start" ELSE "fill"
    /\ next_put' = 1
    /\ started' = 0
    /\ joined' = 0
    /\ pc' = [w \in Workers |-> "none"]
    /\ run' = run + 1
    /\ prev' = IF run = 0 THEN NoRun ELSE [file |-> results_file, artifact |-> artifact]
    /\ outcome' = "none"
    /\ artifact' = <<>>
    /\ dequeued' = [i \in IdSet |-> 0]
    /\ compute_raised' = 0
    /\ ok_tasks' = 0
    /\ UNCHANGED <<num_workers, can_raise, set_ids_buf, set_ids_pipe, results_,
                   localVars, it>>

\* the first call of process_ids on the solver
Call ==
    /\ run = 0
    /\ \E ids \in SetIdLists, file \in ResultsFiles : Enter(ids, file)

\* a second call with the same set IDs, after the first has returned
CallAgain ==
    /\ run = 1
    /\ outcome = "returned"
    /\ \E file \in ResultsFiles : Enter(set_ids, file)

\* lines 101-103: one self.set_ids_.put(id)
PutId ==
    /\ opc = "fill"
    /\ set_ids_buf' = Append(set_ids_buf, set_ids[next_put])
    /\ next_put' = next_put + 1
    /\ opc' = IF next_put = Len(set_ids) THEN "start" ELSE "fill"
    /\ UNCHANGED <<confVars, set_ids_pipe, results_, set_ids, results_file, started,
                   joined, pc, localVars, it, histVars>>

\* lines 106-109: one p.start()
StartProcess ==
    /\ opc = "start"
    /\ started' = started + 1
    /\ pc' = [pc EXCEPT ![started + 1] = "check"]
    /\ opc' = IF started + 1 = num_workers THEN "join" ELSE "start"
    /\ UNCHANGED <<confVars, set_ids_buf, set_ids_pipe, results_, set_ids,
                   results_file, next_put, joined, localVars, it, histVars>>

\* a process has ended: process_wrapper returned, or an exception left it
Ended(w) == pc[w] \in {"terminated", "crashed"}

\* as JoinProcess, with a join that does not wait for the process to end
JoinProcess_NoWait ==
    /\ opc = "join"
    /\ joined' = joined + 1
    /\ opc' = IF joined + 1 = num_workers THEN "save" ELSE "join"
    /\ UNCHANGED <<confVars, set_ids_buf, set_ids_pipe, results_, set_ids,
                   results_file, next_put, started, pc, localVars, it, histVars>>

\* lines 110-112: one p.join(), which waits until the process has ended
JoinProcess ==
    /\ opc = "join"
    /\ Ended(joined + 1)
    /\ joined' = joined + 1
    /\ opc' = IF joined + 1 = num_workers THEN "save" ELSE "join"
    /\ UNCHANGED <<confVars, set_ids_buf, set_ids_pipe, results_, set_ids,
                   results_file, next_put, started, pc, localVars, it, histVars>>

\* lines 177-189, maybe_save_results: "if results_file:" holds for a non-empty path
SavesUnified(file) == file # None /\ file # EmptyPath

\* the unified writer behind maybe_save_results: a header line, then the rows
\* drained from the result channel
UnifiedArtifact(rows) == <<Header>> \o rows

\* lines 115-116: maybe_save_results(results_file), then the return to the caller;
\* an exception of the writer leaves process_ids through line 115, with the
\* channel drained or not
SaveResults ==
    /\ opc = "save"
    /\ IF SavesUnified(results_file)
       THEN \/ /\ artifact' = UnifiedArtifact(results_)
               /\ results_' = <<>>
               /\ outcome' = "returned"
            \/ /\ can_raise
               /\ results_' \in {results_, <<>>}
               /\ outcome' = "raised"
               /\ UNCHANGED artifact
       ELSE /\ outcome' = "returned"
            /\ UNCHANGED <<results_, artifact>>
    /\ opc' = "idle"
    /\ UNCHANGED <<confVars, set_ids_buf, set_ids_pipe, set_ids, results_file, next_put,
                   started, joined, pc, localVars, it, run, dequeued, compute_raised,
                   ok_tasks, prev>>

\* ---- process_wrapper ----------------------------------------------------
Mark(w, step, how) == [it EXCEPT ![w][step] = how]

\* process_wrapper returns and the process ends, its locals with it
Return(w) ==
    /\ pc' = [pc EXCEPT ![w] = "terminated"]
    /\ set_id' = [set_id EXCEPT ![w] = NoId]
    /\ res_string' = [res_string EXCEPT ![w] = EmptyString]
    /\ it' = [it EXCEPT ![w] = NoIteration]

\* line 61: while not self.set_ids_.empty()
CheckEmpty(w) ==
    /\ pc[w] = "check"
    /\ IF QueueEmpty(set_ids_pipe)
       THEN Return(w)
       ELSE /\ pc' = [pc EXCEPT ![w] = "get"]
            /\ it' = [it EXCEPT ![w] = NoIteration]
            /\ UNCHANGED localVars
    /\ UNCHANGED <<confVars, set_ids_buf, set_ids_pipe, results_, orchVars, histVars>>

\* as GetId, without the res_string = "" of line 69
GetId_NoReset(w) ==
    /\ pc[w] = "get"
    /\ ~QueueEmpty(set_ids_pipe)
    /\ set_id' = [set_id EXCEPT ![w] = Head(set_ids_pipe)]
    /\ set_ids_pipe' = Tail(set_ids_pipe)
    /\ dequeued' = [dequeued EXCEPT ![Head(set_ids_pipe)] = @ + 1]
    /\ pc' = [pc EXCEPT ![w] = "begin"]
    /\ UNCHANGED <<confVars, set_ids_buf, results_, orchVars, res_string, it, run,
                   outcome, artifact, compute_raised, ok_tasks, prev>>

\* lines 63-64 and 69: set_id = self.set_ids_.get() returns (it waits while the
\* pipe is empty), then res_string = ""
GetId(w) ==
    /\ pc[w] = "get"
    /\ ~QueueEmpty(set_ids_pipe)
    /\ set_id' = [set_id EXCEPT ![w] = Head(set_ids_pipe)]
    /\ set_ids_pipe' = Tail(set_ids_pipe)
    /\ res_string' = [res_string EXCEPT ![w] = EmptyString]
    /\ dequeued' = [dequeued EXCEPT ![Head(set_ids_pipe)] = @ + 1]
    /\ pc' = [pc EXCEPT ![w] = "begin"]
    /\ UNCHANGED <<confVars, set_ids_buf, results_, orchVars, it, run, outcome,
                   artifact, compute_raised, ok_tasks, prev>>

\* as GetRaises, with a handler that goes on with the loop instead of
\* leaving it
GetRaises_Continue(w) ==
    /\ pc[w] = "get"
    /\ can_raise
    /\ \/ UNCHANGED set_ids_pipe
       \/ /\ ~QueueEmpty(set_ids_pipe)
          /\ set_ids_pipe' = Tail(set_ids_pipe)
    /\ pc' = [pc EXCEPT ![w] = "check"]
    /\ UNCHANGED <<confVars, set_ids_buf, results_, orchVars, localVars, it, histVars>>

\* lines 65-67: get() raises; the worker prints and breaks.  The item being
\* received may or may not be lost with the failed read.
GetRaises(w) ==
    /\ pc[w] = "get"
    /\ can_raise
    /\ \/ UNCHANGED set_ids_pipe
       \/ /\ ~QueueEmpty(set_ids_pipe)
          /\ set_ids_pipe' = Tail(set_ids_pipe)
    /\ Return(w)
    /\ UNCHANGED <<confVars, set_ids_buf, results_, orchVars, histVars>>

\* line 71: self.maybe_begin_logging(set_id); an exception goes to the handler
\* of line 78 and from there to the finally block
BeginLogging(w) ==
    /\ pc[w] = "begin"
    /\ \/ /\ it' = Mark(w, "begin", "ok")
          /\ pc' = [pc EXCEPT ![w] = "compute"]
       \/ /\ can_raise
          /\ it' = Mark(w, "begin", "raised")
          /\ pc' = [pc EXCEPT ![w] = "stop"]
    /\ UNCHANGED <<confVars, set_ids_buf, set_ids_pipe, results_, orchVars, localVars,
                   histVars>>

\* as Compute, with a handler that leaves the loop when the call raises
Compute_Break(w) ==
    /\ pc[w] = "compute"
    /\ \/ /\ it' = Mark(w, "compute", "ok")
          /\ pc' = [pc EXCEPT ![w] = "aggregate"]
          /\ UNCHANGED <<compute_raised, localVars>>
       \/ /\ can_raise
          /\ Return(w)
          /\ compute_raised' = compute_raised + 1
    /\ UNCHANGED <<confVars, set_ids_buf, set_ids_pipe, results_, orchVars,
                   run, outcome, artifact, dequeued, ok_tasks, prev>>

\* line 72: result = self.get_process_function_result(set_id)
Compute(w) ==
    /\ pc[w] = "compute"
    /\ \/ /\ it' = Mark(w, "compute", "ok")
          /\ pc' = [pc EXCEPT ![w] = "aggregate"]
          /\ UNCHANGED compute_raised
       \/ /\ can_raise
          /\ it' = Mark(w, "compute", "raised")
          /\ pc' = [pc EXCEPT ![w] = "stop"]
          /\ compute_raised' = compute_raised + 1
    /\ UNCHANGED <<confVars, set_ids_buf, set_ids_pipe, results_, orchVars, localVars,
                   run, outcome, artifact, dequeued, ok_tasks, prev>>

\* as Aggregate, without the finally block: an exception goes to the handler
\* of line 78 and from there to the next turn of the loop
Aggregate_NoFinally(w) ==
    /\ pc[w] = "aggregate"
    /\ \/ /\ it' = Mark(w, "aggregate", "ok")
          /\ res_string' = [res_string EXCEPT ![w] = ResultRow(ProcessResult(set_id[w]))]
          /\ ok_tasks' = ok_tasks + 1
          /\ pc' = [pc EXCEPT ![w] = "put"]
       \/ /\ can_raise
          /\ it' = Mark(w, "aggregate", "raised")
          /\ pc' = [pc EXCEPT ![w] = "check"]
          /\ UNCHANGED <<res_string, ok_tasks>>
    /\ UNCHANGED <<confVars, set_ids_buf, set_ids_pipe, results_, orchVars, set_id,
                   run, outcome, artifact, dequeued, compute_raised, prev>>

\* line 73: res_string = self.aggregate_process_function_result(result), where
\* result is what line 72 has just computed for set_id
Aggregate(w) ==
    /\ pc[w] = "aggregate"
    /\ \/ /\ it' = Mark(w, "aggregate", "ok")
          /\ res_string' = [res_string EXCEPT ![w] = ResultRow(ProcessResult(set_id[w]))]
          /\ ok_tasks' = ok_tasks + 1
          /\ pc' = [pc EXCEPT ![w] = "put"]
       \/ /\ can_raise
          /\ it' = Mark(w, "aggregate", "raised")
          /\ pc' = [pc EXCEPT ![w] = "stop"]
          /\ UNCHANGED <<res_string, ok_tasks>>
    /\ UNCHANGED <<confVars, set_ids_buf, set_ids_pipe, results_, orchVars, set_id,
                   run, outcome, artifact, dequeued, compute_raised, prev>>

\* lines 75-77: if self.save_all_results_: self.results_.put(res_string).  The
\* process joins the feeder thread of results_ when it exits, so every row it
\* put is in the pipe once the process has ended.
PutResult(w) ==
    /\ pc[w] = "put"
    /\ IF save_all_results_
       THEN /\ results_' = Append(results_, res_string[w])
            /\ it' = Mark(w, "put", "ok")
       ELSE UNCHANGED <<results_, it>>
    /\ pc' = [pc EXCEPT ![w] = "stop"]
    /\ UNCHANGED <<confVars, set_ids_buf, set_ids_pipe, orchVars, localVars, histVars>>

\* as StopLogging, with a loop that goes on at line 61 once
\* maybe_stop_logging has returned, leaving the local persist aside
StopLogging_SkipsPersist(w) ==
    /\ pc[w] = "stop"
    /\ \/ it' = Mark(w, "stop", "ok")
       \/ /\ can_raise
          /\ it' = Mark(w, "stop", "raised")
    /\ pc' = [pc EXCEPT ![w] = "check"]
    /\ UNCHANGED <<confVars, set_ids_buf, set_ids_pipe, results_, orchVars, localVars,
                   histVars>>

\* line 82, in the finally block: self.maybe_stop_logging(); an exception goes
\* to the handler of line 85, past line 83
StopLogging(w) ==
    /\ pc[w] = "stop"
    /\ \/ /\ it' = Mark(w, "stop", "ok")
          /\ pc' = [pc EXCEPT ![w] = "save_local"]
       \/ /\ can_raise
          /\ it' = Mark(w, "stop", "raised")
          /\ pc' = [pc EXCEPT ![w] = "check"]
    /\ UNCHANGED <<confVars, set_ids_buf, set_ids_pipe, results_, orchVars, localVars,
                   histVars>>

\* as SaveLocalResults, without the handler of line 85: an exception leaves
\* process_wrapper and ends the process
SaveLocalResults_Unguarded(w) ==
    /\ pc[w] = "save_local"
    /\ \/ /\ it' = Mark(w, "save_local", "ok")
          /\ pc' = [pc EXCEPT ![w] = "check"]
       \/ /\ can_raise
          /\ it' = Mark(w, "save_local", "raised")
          /\ pc' = [pc EXCEPT ![w] = "crashed"]
    /\ UNCHANGED <<confVars, set_ids_buf, set_ids_pipe, results_, orchVars, localVars,
                   histVars>>

\* lines 83-86: self.maybe_save_local_results(set_id, res_string); the handler of
\* line 85 contains an exception, and the loop goes on at line 61
SaveLocalResults(w) ==
    /\ pc[w] = "save_local"
    /\ \/ it' = Mark(w, "save_local", "ok")
       \/ /\ can_raise
          /\ it' = Mark(w, "save_local", "raised")
    /\ pc' = [pc EXCEPT ![w] = "check"]
    /\ UNCHANGED <<confVars, set_ids_buf, set_ids_pipe, results_, orchVars, localVars,
                   run, outcome, artifact, dequeued, compute_raised, ok_tasks, prev>>

WorkerStep(w) ==
    \/ CheckEmpty(w)
    \/ GetId(w)
    \/ BeginLogging(w)
    \/ Compute(w)
    \/ Aggregate(w)
    \/ PutResult(w)
    \/ StopLogging(w)
    \/ SaveLocalResults(w)

\* a step the program takes by itself, once process_ids has been called
ProgramStep ==
    \/ PutId
    \/ Feeder
    \/ StartProcess
    \/ JoinProcess
    \/ SaveResults
    \/ \E w \in Workers : WorkerStep(w)

\* one call of process_ids on a new solver, in an environment that may raise
Next ==
    \/ Call
    \/ ProgramStep
    \/ \E w \in Workers : GetRaises(w)

Spec == Init /\ [][Next]_vars

\* Every thread and process that can take a step eventually takes one.  Nothing
\* obliges the caller to call, nor a queue read to fail.
Fairness ==
    /\ WF_vars(PutId)
    /\ WF_vars(Feeder)
    /\ WF_vars(StartProcess)
    /\ WF_vars(JoinProcess)
    /\ WF_vars(SaveResults)
    /\ \A w \in Workers : WF_vars(WorkerStep(w))

\* one call of process_ids on a new solver, in an environment where no hook
\* and no queue read ever raises, under fair scheduling
InitQuiet == Constructed(FALSE)

NextQuiet ==
    \/ Call
    \/ ProgramStep

QuietSpec == InitQuiet /\ [][NextQuiet]_vars /\ Fairness

\* two calls of process_ids with the same set IDs on one solver, in the same
\* environment
NextRerun ==
    \/ Call
    \/ CallAgain
    \/ ProgramStep

RerunSpec == InitQuiet /\ [][NextRerun]_vars

\* ---- helpers of the properties -------------------------------------------
\* occurrences of x in the sequence s
Count(x, s) == Cardinality({k \in 1..Len(s) : s[k] = x})

\* the two sequences hold the same elements, each as often
SameBag(s, t) ==
    /\ Len(s) = Len(t)
    /\ \A k \in 1..Len(s) : Count(s[k], s) = Count(s[k], t)

\* every process of the current call has been started and has ended
AllWorkersEnded == run > 0 /\ opc \in {"save", "idle"}

\* the current call has come back to its caller
Returned == run > 0 /\ opc = "idle"

\* the worker has just finished the pipeline of set_id[w] and not yet looked
\* at the queue again
IterationDone(w) == pc[w] = "check" /\ it[w]["begin"] # "none"

\* the worker has left the try block of lines 70-79 for set_id[w]
PastTryBlock(w) == pc[w] \in {"stop", "save_local"} \/ IterationDone(w)

PipelinePcs == {"begin", "compute", "aggregate", "put", "stop", "save_local"}

\* ---- properties -----------------------------------------------------------

\* C1: for a non-empty set_ids and any num_workers >= 1, a call of process_ids
\* terminates: all workers end, the join barrier is passed, maybe_save_results
\* is reached and the call comes back (no hook hangs: every enabled step is
\* eventually taken).
C1_ProcessIdsTerminates ==
    (run = 1 /\ set_ids # <<>>) ~> Returned

\* C2: once all workers have terminated, every set ID put on the task queue by
\* process_ids has been dequeued and run through the pipeline exactly once: the
\* processed IDs are the input IDs, each as often as it was put.
C2_EveryIdProcessedOnce ==
    AllWorkersEnded => \A i \in IdSet : dequeued[i] = Count(i, set_ids)

\* C3: a worker that saw the queue non-empty and then finds it empty at its pop,
\* because another worker took the last item, takes that as the empty signal
\* and terminates, without waiting and without processing anything.
C3_LostRaceTerminates ==
    \A w \in Workers :
        (pc[w] = "get" /\ QueueEmpty(set_ids_pipe) /\ set_ids_buf = <<>>)
            ~> (pc[w] = "terminated")

\* C4: in unified mode (results_file is not None), once process_ids has
\* returned, the unified output is the header followed by exactly one row per
\* task whose compute and aggregate both succeeded; the header is there even
\* with no row.
C4_UnifiedOutput ==
    (Returned /\ outcome = "returned" /\ results_file # None) =>
        /\ Len(artifact) = 1 + ok_tasks
        /\ artifact[1] = Header
        /\ results_ = <<>>

\* C5: in local mode (results_file = None) no unified artifact is written, no
\* row is put on the result channel, and maybe_save_local_results has been
\* called for every set ID whose pipeline has finished, whether its compute
\* step returned or raised.
C5_LocalMode ==
    (run > 0 /\ results_file = None) =>
        /\ artifact = <<>>
        /\ results_ = <<>>
        /\ \A w \in Workers :
              (IterationDone(w) /\ it[w]["compute"] # "none") =>
                  it[w]["save_local"] # "none"

\* C6: an exception raised in a pipeline step for one set ID never ends the
\* worker loop: from every step of the pipeline, whether it returns or raises,
\* the worker goes on within the pipeline or to its next emptiness check.
C6_FailureIsolation ==
    [][\A w \in Workers :
          pc[w] \in PipelinePcs => pc'[w] \in PipelinePcs \cup {"check"}]_vars

\* a single worker whose compute step raised for the first set ID is
\* computing the second one
C6_Witness ==
    /\ num_workers = 1
    /\ compute_raised = 1
    /\ dequeued[1] + dequeued[2] = 2
    /\ pc[1] = "compute"

\* C7: no error of a task leaves a worker loop, every process has ended
\* normally when the join barrier is passed, and process_ids returns normally
\* even if compute raised for every set ID: only the unified write can raise
\* to the caller.
C7_NoTaskErrorReachesCaller ==
    /\ \A w \in Workers : pc[w] # "crashed"
    /\ AllWorkersEnded => \A w \in 1..num_workers : pc[w] = "terminated"
    /\ (Returned /\ outcome = "raised") => SavesUnified(results_file)

\* process_ids has returned normally from a call in which compute raised for
\* every set ID
C7_Witness ==
    /\ Returned
    /\ outcome = "returned"
    /\ Len(set_ids) = MaxIds
    /\ compute_raised = Len(set_ids)

\* C8: a second call of process_ids with the same set IDs and a fresh
\* destination writes the same rows as the first, as a multiset; nothing left
\* over from the first call shows up in the second.
C8_RerunWritesSameRows ==
    (run = 2 /\ Returned /\ SavesUnified(prev.file) /\ SavesUnified(results_file)) =>
        SameBag(artifact, prev.artifact)

\* C9: when maybe_begin_logging raises for a set ID, the pipeline of that ID
\* is not aborted: compute is still called for it, and in unified mode its row
\* is put on the result channel.
C9_BeginLoggingFailureContained ==
    \A w \in Workers :
        (PastTryBlock(w) /\ it[w]["begin"] = "raised") =>
            /\ it[w]["compute"] # "none"
            /\ (save_all_results_ /\ it[w]["aggregate"] = "ok") => it[w]["put"] = "ok"

\* C10: when maybe_stop_logging raises for a set ID whose row has been
\* computed, maybe_save_local_results is still called for that ID: a failing
\* hook does not suppress a computed result.
C10_StopLoggingFailureContained ==
    \A w \in Workers :
        (IterationDone(w) /\ it[w]["aggregate"] = "ok" /\ it[w]["stop"] = "raised") =>
            it[w]["save_local"] # "none"

\* C11: when the compute step raises for a set ID, no row for that ID is put on
\* the result channel, and maybe_save_local_results is still called for that
\* ID, with the empty row.
C11_ComputeFailureContained ==
    \A w \in Workers :
        (PastTryBlock(w) /\ it[w]["compute"] = "raised") =>
            /\ it[w]["put"] = "none"
            /\ res_string[w] = EmptyString
            /\ IterationDone(w) => it[w]["save_local"] # "none"

\* C12: an exception raised by maybe_save_results is contained: it never
\* reaches the caller of process_ids, which returns normally.
C12_UnifiedWriteFailureContained ==
    Returned => outcome = "returned"

\* C13: for every value of results_file, the workers put rows on the result
\* channel only if the orchestrator afterwards drains the channel and writes
\* the unified artifact: a call that has returned normally leaves no row on
\* the channel.
C13_NoRowLeftOnChannel ==
    (Returned /\ outcome = "returned") => results_ = <<>>

\* C14: for every set ID a worker dequeues, maybe_stop_logging is called
\* exactly once, after the begin-logging attempt and before the local-persist
\* attempt, on every way out of the try block (success, or an exception in
\* begin-logging, compute, aggregate or the put): it has not been called
\* while the worker is in the try block or about to call it, it has been
\* called when local-persist is attempted, and it has been called when the
\* iteration ends.
C14_StopLoggingExactlyOnce ==
    \A w \in Workers :
        /\ pc[w] \in {"begin", "compute", "aggregate", "put"} =>
              it[w]["stop"] = "none" /\ it[w]["save_local"] = "none"
        /\ pc[w] = "stop" =>
              /\ it[w]["begin"] # "none"
              /\ it[w]["stop"] = "none"
              /\ it[w]["save_local"] = "none"
        /\ pc[w] = "save_local" =>
              it[w]["stop"] = "ok" /\ it[w]["save_local"] = "none"
        /\ IterationDone(w) =>
              /\ it[w]["stop"] # "none"
              /\ it[w]["save_local"] # "none" => it[w]["stop"] = "ok"

\* an iteration whose aggregate step raised has ended with maybe_stop_logging
\* and then maybe_save_local_results called
C14_Witness ==
    \E w \in Workers :
        /\ IterationDone(w)
        /\ it[w]["aggregate"] = "raised"
        /\ it[w]["stop"] = "ok"
        /\ it[w]["save_local"] = "ok"

\* C15: the result channel is read and the unified artifact written only by
\* the orchestrator at line 115, when every process it started has ended and
\* been joined, and once in a call; from the join barrier on, no row is put on
\* the result channel.
C15_DrainAfterJoinOnly ==
    [][/\ (artifact' # artifact \/ Len(results_') < Len(results_)) =>
              /\ opc = "save" /\ opc' = "idle"
              /\ joined = num_workers
              /\ \A w \in 1..num_workers : Ended(w)
              /\ pc' = pc
       /\ AllWorkersEnded => Len(results_') <= Len(results_)]_vars

\* the orchestrator has written the rows that all of its workers, now ended,
\* had put on the channel
C15_Witness ==
    /\ Returned
    /\ num_workers = MaxWorkers
    /\ Len(artifact) > 1
    /\ \A w \in Workers : pc[w] = "terminated"

\* C16: every set ID is in the task queue and visible to the workers'
\* emptiness check before any worker is started, and the queue is not
\* refilled during the run: once a worker has been started, no set ID is
\* still on its way into the queue.
C16_QueueFilledBeforeStart ==
    started > 0 => set_ids_buf = <<>>

\* C17: when get() raises, the worker leaves its loop at once: from line 63 a
\* worker goes either on with the dequeued ID or, on the exception, straight
\* to its end, with no pipeline step called for that iteration and no second
\* get(); the step changes nothing for the other workers nor for the caller,
\* and a worker that has ended takes no further step.
C17_GetFailureEndsWorkerOnly ==
    [][\A w \in Workers :
          /\ pc[w] = "get" => pc'[w] \in {"get", "begin", "terminated"}
          /\ (pc[w] = "get" /\ pc'[w] = "terminated") =>
                /\ it'[w] = NoIteration
                /\ \A v \in Workers \ {w} :
                      /\ pc'[v] = pc[v] /\ it'[v] = it[v]
                      /\ set_id'[v] = set_id[v] /\ res_string'[v] = res_string[v]
                /\ UNCHANGED <<orchVars, results_, outcome>>
          /\ pc[w] = "terminated" => pc'[w] = "terminated"]_vars

\* the first worker's get() raised and lost set ID 1; it has ended, no one has
\* dequeued ID 1, and the second worker is computing ID 2
C17_Witness ==
    /\ num_workers = 2
    /\ set_ids = <<1, 2>>
    /\ pc[1] = "terminated"
    /\ dequeued[1] = 0
    /\ set_ids_pipe = <<>> /\ set_ids_buf = <<>>
    /\ pc[2] = "compute" /\ set_id[2] = 2

\* C18: a worker ends only by finding the task queue empty, with no pipeline
\* step of a dequeued set ID outstanding; so when the join barrier is passed
\* and no queue access has failed, the task queue is empty: no set ID put by
\* process_ids is still in it or on its way into it.
C18_QueueEmptyAfterJoin ==
    AllWorkersEnded => (set_ids_pipe = <<>> /\ set_ids_buf = <<>>)

\* C19: the row handed to maybe_save_local_results for a set ID is the row
\* aggregated for that same ID in the same iteration if the aggregate step
\* returned, and the empty string otherwise: never the row of an ID the worker
\* processed earlier.
C19_LocalRowIsOwnOrEmpty ==
    \A w \in Workers :
        pc[w] = "save_local" =>
            res_string[w] = IF it[w]["aggregate"] = "ok"
                            THEN ResultRow(ProcessResult(set_id[w]))
                            ELSE EmptyString

\* the only worker is about to persist the empty row of an ID whose compute
\* step raised, after it aggregated the row of an earlier ID
C19_Witness ==
    /\ num_workers = 1
    /\ ok_tasks = 1
    /\ pc[1] = "save_local"
    /\ it[1]["compute"] = "raised"
    /\ res_string[1] = EmptyString

\* C20: within one worker the pipelines of different set IDs do not
\* interleave: when the worker is back at line 61 the stop-logging attempt of
\* the ID it has just processed has been made, and the local-persist attempt
\* after it unless stop-logging raised; when it dequeues and when it opens
\* the logging of the next ID, no step of another ID is outstanding; and in
\* every pipeline step it holds the one set ID it dequeued last.
C20_OneIdInProgress ==
    \A w \in Workers :
        /\ IterationDone(w) =>
              /\ it[w]["stop"] # "none"
              /\ it[w]["stop"] = "ok" => it[w]["save_local"] # "none"
        /\ pc[w] \in {"get", "begin"} => it[w] = NoIteration
        /\ pc[w] \in PipelinePcs => set_id[w] # NoId
        /\ pc[w] \in {"none", "terminated"} => set_id[w] = NoId

\* the only worker has finished the pipeline of set ID 1 and is about to open
\* the logging of set ID 2
C20_Witness ==
    /\ num_workers = 1
    /\ set_ids = <<1, 2>>
    /\ dequeued[1] = 1
    /\ pc[1] = "begin"
    /\ set_id[1] = 2

====
